---- MODULE Spec2Model ----
(***************************************************************************)
(* Model of src/lunisolar-engine.js: the lunisolar calendar engine.        *)
(*                                                                         *)
(* Time.  An instant (a JS Date) is an integer number of ticks since       *)
(* 2000-01-01T00:00Z; one day is DayTicks ticks, so a month may last a     *)
(* whole number of days plus 1/4, 1/2 or 3/4 day.  An Invalid Date is the  *)
(* value NaN, and every comparison with it is false, as in JavaScript.     *)
(*                                                                         *)
(* Ephemeris.  The astronomia library is an input of the engine.  It is    *)
(* drawn in Init from a bounded family of well-formed ephemerides: the new *)
(* moon of lunation k falls at NewMoonBase + moonOff * MoonStep plus the   *)
(* sum of the first k gaps, the gaps repeating the pattern gapPat of       *)
(* synodic-month lengths between 29 1/4 and 29 3/4 days; the Sun moves     *)
(* uniformly, one turn in 365 1/4 days, and is at longitude 0 at           *)
(* EquinoxBase + eqOff.  Longitudes are integers in units of 360/LonFull   *)
(* degrees, so that every comparison the code makes on degrees is exact.   *)
(*                                                                         *)
(* Calls.  The engine keeps no state between calls.  The variable call     *)
(* holds the exported function last called, its arguments and what came of *)
(* it: ret.status is "ok" (it returned), "throw" (it threw) or "hang" (it  *)
(* never returns).  Every JS function is an operator of the same name,     *)
(* computed as the code computes it; a value the code binds once with      *)
(* const and reads several times is the parameter of a local operator.     *)
(***************************************************************************)
EXTENDS Integers, Sequences, FiniteSets, TLC

VARIABLES moonOff, gapPat, eqOff, call

vars == <<moonOff, gapPat, eqOff, call>>

-----------------------------------------------------------------------------
(* Bounds of the model *)

MaxMoonOff == 2
MaxEqOff == 1
MaxRefYear == 2003
MaxDayOff == 1
MaxBatch == 2

(* Units *)
DayTicks == 4
MinRefYear == MaxRefYear - 1
RefYears == MinRefYear..MaxRefYear
YearTicks == 365 * DayTicks + 1
LonPerTick == 12
LonFull == LonPerTick * YearTicks
LonHalf == LonFull \div 2
TermStep == LonFull \div 12
NewMoonBase == 5 * DayTicks + 3
MoonStep == 7 * DayTicks + 1
EquinoxBase == 79 * DayTicks
JDEpoch == 2451544 * DayTicks + 2
GapSet == {29 * DayTicks + 1, 29 * DayTicks + 2, 29 * DayTicks + 3}
MeanGap == 29 * DayTicks + 2
GapPatterns == {p \in GapSet \X GapSet : p[1] + p[2] = 2 * MeanGap}

NaN == -99999999

-----------------------------------------------------------------------------
(* The UTC calendar of JS Date *)

IsLeapYear(y) == (y % 4 = 0 /\ y % 100 # 0) \/ y % 400 = 0

LeapDaysThrough(y) == (y \div 4) - (y \div 100) + (y \div 400)

YearStartTick(y) ==
  DayTicks * (365 * (y - 2000) + LeapDaysThrough(y - 1) - LeapDaysThrough(1999))

DaysBeforeMonth(m) ==
  <<0, 31, 59, 90, 120, 151, 181, 212, 243, 273, 304, 334>>[m + 1]

\* Date.UTC(year, month, day, 0, 0, 0): month is 0-based, day is 1-based
DateUTC(year, month, day) ==
  IF year = NaN THEN NaN
  ELSE YearStartTick(year)
       + DayTicks * (DaysBeforeMonth(month) + (day - 1)
                     + (IF month >= 2 /\ IsLeapYear(year) THEN 1 ELSE 0))

RECURSIVE YearFrom(_, _)
YearFrom(t, y) ==
  IF t >= YearStartTick(y + 1) THEN YearFrom(t, y + 1)
  ELSE IF t < YearStartTick(y) THEN YearFrom(t, y - 1)
  ELSE y

\* date.getUTCFullYear()
getUTCFullYear(date) ==
  IF date = NaN THEN NaN ELSE YearFrom(date, 2000 + (date \div YearTicks))

\* comparisons of Dates: false whenever an operand is an Invalid Date
DateLE(a, b) == a # NaN /\ b # NaN /\ a <= b
DateLT(a, b) == a # NaN /\ b # NaN /\ a < b
DateGE(a, b) == DateLE(b, a)
DateGT(a, b) == DateLT(b, a)

dateToJulianDayUTC(date) == IF date = NaN THEN NaN ELSE date + JDEpoch

julianDayToDateUTC(jd) == IF jd = NaN THEN NaN ELSE jd - JDEpoch

-----------------------------------------------------------------------------
(* The ephemeris (astronomia) *)

RECURSIVE SumTo(_, _)
SumTo(s, n) == IF n = 0 THEN 0 ELSE s[n] + SumTo(s, n - 1)

\* moonphase.truePhase(k).jde: the new moon of lunation k; arithmetic on NaN
\* gives NaN, and a malformed ephemeris (moonOff = NaN) answers NaN for every k
truePhase(k) ==
  IF k = NaN \/ moonOff = NaN THEN NaN
  ELSE JDEpoch + NewMoonBase + moonOff * MoonStep
       + (k \div Len(gapPat)) * SumTo(gapPat, Len(gapPat))
       + SumTo(gapPat, k % Len(gapPat))

\* solar.apparentLongitude(jd), normalised to [0, 360); NaN for an Invalid Date
sunEclipticLongitudeDegrees(dateUTC) ==
  IF dateUTC = NaN THEN NaN
  ELSE LonPerTick
         * ((dateToJulianDayUTC(dateUTC) - (JDEpoch + EquinoxBase + eqOff)) % YearTicks)

-----------------------------------------------------------------------------
(* 1) New moons in a window *)

\* newMoons after if (d >= startDateUTC && d <= endDateUTC) newMoons.push(d)
Pushed(newMoons, d, startDateUTC, endDateUTC) ==
  IF DateGE(d, startDateUTC) /\ DateLE(d, endDateUTC) THEN Append(newMoons, d) ELSE newMoons

\* The while (true) loop of computeNewMoonsBetween.  With k = NaN (an Invalid
\* Date window) truePhase(NaN) is NaN, no comparison is ever true, k++ stays
\* NaN and the guard k > 1000000 is false: the loop never exits ("hang").
\* With a number k and every d NaN (moonOff = NaN), or endDateUTC NaN, no
\* iteration pushes or breaks on d > endDateUTC, and every one repeats the
\* last but for k++: the loop ends at the guard, with newMoons as it is; that
\* value is returned at once.  The two exits of an iteration, d > endDateUTC
\* and the guard after k++, return the same list and are one test here.
RECURSIVE NewMoonLoop(_, _, _, _)
NewMoonLoop(k, newMoons, startDateUTC, endDateUTC) ==
  IF k = NaN THEN [status |-> "hang", list |-> newMoons]
  ELSE IF \/ DateGT(julianDayToDateUTC(truePhase(k)), endDateUTC)
          \/ k + 1 > 1000000
          \/ moonOff = NaN \/ endDateUTC = NaN
  THEN [status |-> "ok",
        list |-> Pushed(newMoons, julianDayToDateUTC(truePhase(k)),
                        startDateUTC, endDateUTC)]
  ELSE NewMoonLoop(k + 1,
                   Pushed(newMoons, julianDayToDateUTC(truePhase(k)),
                          startDateUTC, endDateUTC),
                   startDateUTC, endDateUTC)

RECURSIVE InsertSorted(_, _)
InsertSorted(s, x) ==
  IF s = <<>> THEN <<x>>
  ELSE IF x < s[Len(s)]
       THEN Append(InsertSorted(SubSeq(s, 1, Len(s) - 1), x), s[Len(s)])
       ELSE Append(s, x)

RECURSIVE InsertSortedDescending(_, _)
InsertSortedDescending(s, x) ==
  IF s = <<>> THEN <<x>>
  ELSE IF x > s[Len(s)]
       THEN Append(InsertSortedDescending(SubSeq(s, 1, Len(s) - 1), x), s[Len(s)])
       ELSE Append(s, x)

\* a faulty sort, with the comparator reversed to (a, b) => b - a
RECURSIVE SortDescending(_)
SortDescending(s) ==
  IF s = <<>> THEN <<>>
  ELSE InsertSortedDescending(SortDescending(SubSeq(s, 1, Len(s) - 1)), s[Len(s)])

\* newMoons.sort((a, b) => a - b)
RECURSIVE SortAscending(_)
SortAscending(s) ==
  IF s = <<>> THEN <<>>
  ELSE InsertSorted(SortAscending(SubSeq(s, 1, Len(s) - 1)), s[Len(s)])

\* k = Math.floor((startYear - 2000) * 12.3685) - 2
FirstLunationOf(startYear) ==
  IF startYear = NaN THEN NaN
  ELSE (((startYear - 2000) * 123685) \div 10000) - 2

computeNewMoonsBetween(startDateUTC, endDateUTC) ==
  LET Sorted(r) ==
        IF r.status = "ok" THEN [status |-> "ok", list |-> SortAscending(r.list)]
        ELSE r
  IN  Sorted(NewMoonLoop(FirstLunationOf(getUTCFullYear(startDateUTC)), <<>>,
                         startDateUTC, endDateUTC))

-----------------------------------------------------------------------------
(* 3) Principal terms *)

\* delta(deg, target): deg - target normalised to [-180, 180); with deg = NaN
\* neither while loop runs and NaN is returned
delta(deg, target) ==
  IF deg = NaN THEN NaN ELSE ((deg - target + LonHalf) % LonFull) - LonHalf

\* Math.round(x / 2) for an integer x: halves round up
RoundHalf(x) == (x + 1) \div 2

\* the bisection loop, for (let i = 0; i < 40; i++); Math.abs(dm) < 1e-6 is
\* dm = 0 at the resolution of the model.  When mid = high and the branch
\* taken sets high = mid, every remaining iteration repeats this one and the
\* loop ends with Math.round((low + high) / 2): that value is returned at once.
RECURSIVE Bisect(_, _, _, _, _)
Bisect(low, high, i, target, startDeg) ==
  IF i >= 40 THEN RoundHalf(low + high)
  ELSE
    LET At(mid) ==
          LET With(dm) ==
                IF dm = 0 THEN mid
                ELSE IF delta(startDeg, target) * dm <= 0
                     THEN IF mid = high THEN RoundHalf(low + high)
                          ELSE Bisect(low, mid, i + 1, target, startDeg)
                     ELSE IF mid = low THEN RoundHalf(low + high)
                          ELSE Bisect(mid, high, i + 1, target, startDeg)
          IN  With(delta(sunEclipticLongitudeDegrees(mid), target))
    IN  At(RoundHalf(low + high))

\* the loop for (let k = 0; k < 12; k++); null is [found |-> FALSE]; a
\* comparison with NaN is false
RECURSIVE TermLoop(_, _, _, _, _)
TermLoop(k, startDateUTC, endDateUTC, startDeg, endDeg) ==
  IF k >= 12 THEN [found |-> FALSE, at |-> 0]
  ELSE
    LET Test(target, d1, d2) ==
          IF d1 = 0 THEN [found |-> TRUE, at |-> startDateUTC]
          ELSE IF d1 # NaN /\ d2 # NaN /\ d1 * d2 < 0
               THEN [found |-> TRUE,
                     at |-> Bisect(startDateUTC, endDateUTC, 0, target, startDeg)]
               ELSE TermLoop(k + 1, startDateUTC, endDateUTC, startDeg, endDeg)
    IN  Test(k * TermStep, delta(startDeg, k * TermStep), delta(endDeg, k * TermStep))

findPrincipalTermBetween(startDateUTC, endDateUTC) ==
  TermLoop(0, startDateUTC, endDateUTC,
           sunEclipticLongitudeDegrees(startDateUTC),
           sunEclipticLongitudeDegrees(endDateUTC))

monthContainsPrincipalTerm(newMoonDate, nextNewMoonDate) ==
  findPrincipalTermBetween(newMoonDate, nextNewMoonDate).found

-----------------------------------------------------------------------------
(* Lunisolar year *)

Null == 0 - 1

Rules == {"monthContainingEquinox", "firstNewMoonAfterEquinox"}

\* the first (least) index of a loop that breaks on its first hit, or null
FirstIndex(S) == IF S = {} THEN Null ELSE CHOOSE i \in S : \A j \in S : i <= j

\* Math.round((end - start) / (1000 * 60 * 60 * 24)): halves round up
RoundDays(ms) == (2 * ms + DayTicks) \div (2 * DayTicks)

\* Math.floor(ms / (1000 * 60 * 60 * 24))
FloorDays(ms) == ms \div DayTicks

\* first 0-based i < newMoons.length - 1 with newMoons[i] <= equinox < newMoons[i + 1]
ContainingIndex(newMoons, equinox) ==
  FirstIndex({i \in 0..(Len(newMoons) - 2) :
                newMoons[i + 1] <= equinox /\ equinox < newMoons[i + 2]})

\* first 0-based i with newMoons[i] >= equinox
FirstAtOrAfterIndex(newMoons, equinox) ==
  FirstIndex({i \in 0..(Len(newMoons) - 1) : newMoons[i + 1] >= equinox})

\* a faulty choice of the start, which takes the first new moon at or after
\* the equinox whatever the rule
StartIndexAfterOnly(contained, after, yearStartRule) ==
  IF after # Null THEN after ELSE contained

\* lunarYearStartIndex, from the month containing the equinox (contained) and
\* the first new moon at or after it (after)
StartIndex(contained, after, yearStartRule) ==
  IF yearStartRule = "firstNewMoonAfterEquinox"
  THEN IF after # Null THEN after ELSE contained
  ELSE IF contained = Null THEN after ELSE contained

\* the month-assembly loop: while (i < newMoons.length - 1 && months.length < 15)
RECURSIVE AssembleMonths(_, _, _, _)
AssembleMonths(newMoons, i, months, accumulatedDays) ==
  IF ~(i < Len(newMoons) - 1 /\ Len(months) < 15) THEN months
  ELSE
    LET Month(start, end) ==
          LET Cont(pushed, acc) ==
                IF Len(pushed) >= 12 /\ acc >= 354 /\ acc >= 370 THEN pushed
                ELSE AssembleMonths(newMoons, i + 1, pushed, acc)
              Counted(lengthDays) ==
                Cont(Append(months,
                       [start |-> start, end |-> end, lengthDays |-> lengthDays,
                        containsPrincipalTerm |-> monthContainsPrincipalTerm(start, end),
                        isLeap |-> FALSE, displayMonthNumber |-> 0]),
                     accumulatedDays + lengthDays)
          IN  Counted(RoundDays(end - start))
    IN  Month(newMoons[i + 1], newMoons[i + 2])

\* first 0-based j with !months[j].containsPrincipalTerm, or null
LeapIndexOf(months) ==
  FirstIndex({j \in 0..(Len(months) - 1) : ~months[j + 1].containsPrincipalTerm})

MarkLeap(months, leapIndex) ==
  [j \in 1..Len(months) |->
     [months[j] EXCEPT !.isLeap = (leapIndex # Null /\ j = leapIndex + 1)]]

\* the numbering loop: monthNumber is assigned, then incremented unless the
\* month is the leap month
RECURSIVE NumberMonths(_, _, _)
NumberMonths(months, j, monthNumber) ==
  IF j > Len(months) THEN months
  ELSE NumberMonths([months EXCEPT ![j].displayMonthNumber = monthNumber],
                    j + 1,
                    IF months[j].isLeap THEN monthNumber ELSE monthNumber + 1)

\* the equinox of a year: the term found in [March 18, March 22], else March 20
EquinoxOf(year) ==
  LET Or20(term) == IF term.found THEN term.at ELSE DateUTC(year, 2, 20)
  IN  Or20(findPrincipalTermBetween(DateUTC(year, 2, 18), DateUTC(year, 2, 22)))

computeLunisolarYear(referenceDateUTC, options) ==
  LET Result(equinox, leapIndex, months) ==
        IF months = <<>>
        THEN [status |-> "throw", error |-> "TypeError: months[0] is undefined"]
        ELSE [status |-> "ok",
              lunarYearStart |-> months[1].start,
              months |-> months,
              equinox |-> equinox,
              leapIndex |-> leapIndex,
              lunarYear |-> getUTCFullYear(months[1].start)]
      Leap(equinox, assembled, leapIndex) ==
        Result(equinox, leapIndex, NumberMonths(MarkLeap(assembled, leapIndex), 1, 1))
      Assemble(newMoons, equinox, lunarYearStartIndex) ==
        IF lunarYearStartIndex = Null
        THEN [status |-> "throw", error |-> "Could not determine lunar year start index."]
        ELSE LET Built(assembled) == Leap(equinox, assembled, LeapIndexOf(assembled))
             IN  Built(AssembleMonths(newMoons, lunarYearStartIndex, <<>>, 0))
      Start(newMoons, equinox) ==
        Assemble(newMoons, equinox,
                 StartIndex(ContainingIndex(newMoons, equinox),
                            FirstAtOrAfterIndex(newMoons, equinox),
                            options.yearStartRule))
      Moons(year, nm) ==
        IF nm.status # "ok" THEN [status |-> nm.status]
        ELSE IF Len(nm.list) < 12
        THEN [status |-> "throw", error |-> "Insufficient new moon data computed"]
        ELSE Start(nm.list, EquinoxOf(year))
      Year(year) ==
        Moons(year,
              computeNewMoonsBetween(
                DateUTC(IF year = NaN THEN NaN ELSE year - 1, 11, 1),
                DateUTC(IF year = NaN THEN NaN ELSE year + 1, 3, 30)))
  IN  Year(getUTCFullYear(referenceDateUTC))

DefaultOptions == [yearStartRule |-> "monthContainingEquinox",
                   strategy |-> "remapToSameLunarIndex"]

-----------------------------------------------------------------------------
(* Date <-> lunisolar coordinates *)

\* 0-based index of the first month with m.start <= dateUTC < m.end, or null
BracketingIndex(months, dateUTC) ==
  FirstIndex({i \in 0..(Len(months) - 1) :
                DateGE(dateUTC, months[i + 1].start) /\ DateLT(dateUTC, months[i + 1].end)})

\* the fallback of toLunisolar: 28-day cycles from the year start
FallbackLunisolar(dateUTC, year, options) ==
  LET Cycles(ly, daysSinceStart) ==
        [status |-> "ok",
         lunarYear |-> ly.lunarYear,
         monthIndex |-> 0,
         monthNumber |-> (daysSinceStart \div 28) + 1,
         monthDay |-> (daysSinceStart % 28) + 1,
         isLeap |-> FALSE,
         lunarYearStart |-> ly.lunarYearStart]
      From(ly) ==
        IF ly.status # "ok" THEN [status |-> ly.status]
        ELSE Cycles(ly, FloorDays(dateUTC - ly.lunarYearStart))
  IN  From(computeLunisolarYear(DateUTC(year, 2, 20), options))

\* the loop for (const y of candidateYears): a year that throws is skipped
RECURSIVE CandidateLoop(_, _, _, _)
CandidateLoop(candidateYears, c, dateUTC, options) ==
  IF c > Len(candidateYears)
  THEN FallbackLunisolar(dateUTC, getUTCFullYear(dateUTC), options)
  ELSE
    LET Found(ly, i) ==
          IF i = Null THEN [status |-> "continue"]
          ELSE [status |-> "ok",
                lunarYear |-> ly.lunarYear,
                monthIndex |-> i,
                monthNumber |-> ly.months[i + 1].displayMonthNumber,
                monthDay |-> FloorDays(dateUTC - ly.months[i + 1].start) + 1,
                isLeap |-> ly.months[i + 1].isLeap,
                lunarYearStart |-> ly.lunarYearStart]
        Try(ly) ==
          IF ly.status = "hang" THEN [status |-> "hang"]
          ELSE IF ly.status = "throw" THEN [status |-> "continue"]
          ELSE Found(ly, BracketingIndex(ly.months, dateUTC))
        Or(r) ==
          IF r.status = "continue"
          THEN CandidateLoop(candidateYears, c + 1, dateUTC, options)
          ELSE r
    IN  Or(Try(computeLunisolarYear(DateUTC(candidateYears[c], 2, 20), options)))

\* candidateYears = [year - 1, year, year + 1]
CandidateYears(year) ==
  IF year = NaN THEN <<NaN, NaN, NaN>> ELSE <<year - 1, year, year + 1>>

toLunisolar(dateUTC, options) ==
  CandidateLoop(CandidateYears(getUTCFullYear(dateUTC)), 1, dateUTC, options)

\* a faulty match, which compares the display number and forgets the leap flag
MatchingIndexAnyLeap(months, monthNumber, isLeap) ==
  FirstIndex({i \in 0..(Len(months) - 1) :
                months[i + 1].displayMonthNumber = monthNumber})

\* first month with the display number and the leap flag asked for, or null
MatchingIndex(months, monthNumber, isLeap) ==
  FirstIndex({i \in 0..(Len(months) - 1) :
                months[i + 1].displayMonthNumber = monthNumber
                /\ months[i + 1].isLeap = isLeap})

\* new Date(m.start.getTime() + (monthDay - 1) * 24*60*60*1000)
DayOfMonth(m, monthDay) == m.start + (monthDay - 1) * DayTicks

fromLunisolar(lunarYear, monthNumber, monthDay, isLeap, options) ==
  LET Match(ly, i) ==
        IF i # Null
        THEN [status |-> "ok", date |-> DayOfMonth(ly.months[i + 1], monthDay)]
        ELSE [status |-> "ok", date |-> ly.months[1].start]
      In(ly) ==
        IF ly.status # "ok" THEN [status |-> ly.status]
        ELSE Match(ly, MatchingIndex(ly.months, monthNumber, isLeap))
  IN  In(computeLunisolarYear(DateUTC(lunarYear, 2, 20), options))

-----------------------------------------------------------------------------
(* Migration *)

\* date.toISOString(): the instant as text
toISOString(date) == [iso |-> date]

\* item.id || null
IdOrNull(id) == IF id = 0 THEN Null ELSE id

\* first month with the display number asked for, whatever its leap flag
NumberOnlyIndex(months, monthNumber) ==
  FirstIndex({i \in 0..(Len(months) - 1) :
                months[i + 1].displayMonthNumber = monthNumber})

\* matchedMonth: the exact match, else the match by number, else null
MatchedIndex(months, oldLunar) ==
  LET Or(exact) ==
        IF exact # Null THEN exact
        ELSE NumberOnlyIndex(months, oldLunar.monthNumber)
  IN  Or(MatchingIndex(months, oldLunar.monthNumber, oldLunar.isLeap))

\* a faulty remap, one day late: monthDay days are added instead of monthDay - 1
ProposedDateOneLate(matchedMonth, oldLunar) ==
  matchedMonth.start + oldLunar.monthDay * DayTicks

\* new Date(matchedMonth.start.getTime() + (oldLunar.monthDay - 1) * 24*60*60*1000)
ProposedDate(matchedMonth, oldLunar) ==
  matchedMonth.start + (oldLunar.monthDay - 1) * DayTicks

\* an entry of migrated
Migrated(item, originalDate, proposedDate, oldLunar) ==
  [status |-> "ok",
   entry |-> [id |-> item.id,
              originalDate |-> toISOString(originalDate),
              proposedDate |-> toISOString(proposedDate),
              lunarInfo |-> oldLunar]]

\* the body of the forEach callback, inside its try: what it pushes to
\* migrated, or the throw or the hang that ends it
MigrateItem(item, options) ==
  LET Propose(oldLunar, months, matched) ==
        IF matched = Null THEN Migrated(item, item.date, item.date, oldLunar)
        ELSE Migrated(item, item.date,
                      ProposedDate(months[matched + 1], oldLunar), oldLunar)
      Remap(oldLunar, newLunarYear) ==
        IF newLunarYear.status # "ok" THEN [status |-> newLunarYear.status]
        ELSE Propose(oldLunar, newLunarYear.months,
                     MatchedIndex(newLunarYear.months, oldLunar))
      With(oldLunar) ==
        IF oldLunar.status # "ok" THEN [status |-> oldLunar.status]
        ELSE IF options.strategy = "keepAbsolute"
        THEN Migrated(item, item.date, item.date, oldLunar)
        ELSE Remap(oldLunar,
                   computeLunisolarYear(DateUTC(oldLunar.lunarYear, 2, 20), options))
  IN  With(toLunisolar(item.date, options))

\* affirmationsArray.forEach: a throw is caught per item, a hang ends the call
RECURSIVE MigrateLoop(_, _, _, _, _)
MigrateLoop(affirmationsArray, n, migrated, errors, options) ==
  IF n > Len(affirmationsArray)
  THEN [status |-> "ok", migrated |-> migrated, errors |-> errors]
  ELSE
    LET Step(item, r) ==
          IF r.status = "hang" THEN [status |-> "hang"]
          ELSE IF r.status = "throw"
          THEN MigrateLoop(affirmationsArray, n + 1, migrated,
                           Append(errors, [id |-> IdOrNull(item.id)]), options)
          ELSE MigrateLoop(affirmationsArray, n + 1, Append(migrated, r.entry),
                           errors, options)
    IN  Step(affirmationsArray[n], MigrateItem(affirmationsArray[n], options))

previewMigrateAffirmations(affirmationsArray, options) ==
  MigrateLoop(affirmationsArray, 1, <<>>, <<>>, options)

-----------------------------------------------------------------------------
(* Calls *)

Ops == {"none", "computeLunisolarYear", "toLunisolar", "fromLunisolar",
        "roundTrip", "previewMigrateAffirmations",
        "computeNewMoonsBetween", "findPrincipalTermBetween"}

TypeOK ==
  /\ moonOff \in (0..MaxMoonOff) \cup {NaN}
  /\ gapPat \in GapPatterns
  /\ eqOff \in 0..MaxEqOff
  /\ call.op \in Ops

\* lunation numbers of the new moons of the first reference year and after
FirstLunation == (((MinRefYear - 2000) * 123685) \div 10000) + 1
Lunations == FirstLunation..(FirstLunation + 15)

NewMoon(k) == julianDayToDateUTC(truePhase(k))

\* instants given to toLunisolar: up to MaxDayOff ticks around a new moon
Dates == {NewMoon(k) + o : k \in Lunations, o \in (0 - MaxDayOff)..MaxDayOff}

MonthNumbers == 1..14
MonthDays == {1, 30 - MaxDayOff, 30}

\* events of a migration batch: the date field is the value of
\* new Date(item.date), NaN for text that does not parse
EventDates ==
  {NaN, NewMoon(FirstLunation + 3) + 9 * DayTicks + 1, NewMoon(FirstLunation + 14) + 1}
Batches ==
  UNION {[1..n -> EventDates] : n \in 1..MaxBatch}
Strategies == {"remapToSameLunarIndex", "keepAbsolute"}

Init ==
  /\ moonOff \in 0..MaxMoonOff
  /\ gapPat \in GapPatterns
  /\ eqOff \in 0..MaxEqOff
  /\ call = [op |-> "none"]

OptionsWith(rule) == [DefaultOptions EXCEPT !.yearStartRule = rule]

CallComputeLunisolarYear(y, rule) ==
  LET ref == DateUTC(y, 2, 20)
  IN  /\ call.op = "none"
      /\ call' = [op |-> "computeLunisolarYear", ref |-> ref,
                  options |-> OptionsWith(rule),
                  ret |-> computeLunisolarYear(ref, OptionsWith(rule))]
      /\ UNCHANGED <<moonOff, gapPat, eqOff>>

CallToLunisolar(d) ==
  /\ call.op = "none"
  /\ call' = [op |-> "toLunisolar", date |-> d, options |-> DefaultOptions,
              ret |-> toLunisolar(d, DefaultOptions)]
  /\ UNCHANGED <<moonOff, gapPat, eqOff>>

CallFromLunisolar(y, n, k, b) ==
  /\ call.op = "none"
  /\ call' = [op |-> "fromLunisolar", lunarYear |-> y, monthNumber |-> n,
              monthDay |-> k, isLeap |-> b, options |-> DefaultOptions,
              ret |-> fromLunisolar(y, n, k, b, DefaultOptions)]
  /\ UNCHANGED <<moonOff, gapPat, eqOff>>

\* toLunisolar(fromLunisolar(...)): the date just returned is converted back
CallRoundTrip ==
  /\ call.op = "fromLunisolar"
  /\ call.ret.status = "ok"
  /\ call' = [op |-> "roundTrip", from |-> call, date |-> call.ret.date,
              options |-> call.options,
              ret |-> toLunisolar(call.ret.date, call.options)]
  /\ UNCHANGED <<moonOff, gapPat, eqOff>>

\* a batch of events, numbered 1, 2, ... by position
CallPreviewMigrate(dates, strategy) ==
  LET affirmationsArray == [n \in 1..Len(dates) |-> [id |-> n, date |-> dates[n]]]
      options == [DefaultOptions EXCEPT !.strategy = strategy]
  IN  /\ call.op = "none"
      /\ call' = [op |-> "previewMigrateAffirmations",
                  affirmationsArray |-> affirmationsArray, options |-> options,
                  ret |-> previewMigrateAffirmations(affirmationsArray, options)]
      /\ UNCHANGED <<moonOff, gapPat, eqOff>>

\* the caller takes the result
Return ==
  /\ call.op # "none"
  /\ call' = [op |-> "none"]
  /\ UNCHANGED <<moonOff, gapPat, eqOff>>

Next ==
  \/ \E y \in RefYears, rule \in Rules : CallComputeLunisolarYear(y, rule)
  \/ \E d \in Dates : CallToLunisolar(d)
  \/ \E y \in RefYears, n \in MonthNumbers, k \in MonthDays, b \in BOOLEAN :
       CallFromLunisolar(y, n, k, b)
  \/ CallRoundTrip
  \/ \E dates \in Batches, strategy \in Strategies : CallPreviewMigrate(dates, strategy)
  \/ Return

Spec == Init /\ [][Next]_vars

-----------------------------------------------------------------------------
(* Calls with malformed input: an Invalid Date, an ephemeris that answers NaN *)

\* instants given as window ends and as reference dates: valid ones, and NaN
WindowDates == {NaN} \cup {DateUTC(y, 2, 18) : y \in RefYears}
                     \cup {DateUTC(y, 2, 22) : y \in RefYears}

InitMalformed ==
  /\ moonOff \in (0..MaxMoonOff) \cup {NaN}
  /\ gapPat \in GapPatterns
  /\ eqOff \in 0..MaxEqOff
  /\ call = [op |-> "none"]

CallComputeNewMoonsBetween(startDateUTC, endDateUTC) ==
  /\ call.op = "none"
  /\ call' = [op |-> "computeNewMoonsBetween",
              startDateUTC |-> startDateUTC, endDateUTC |-> endDateUTC,
              ret |-> computeNewMoonsBetween(startDateUTC, endDateUTC)]
  /\ UNCHANGED <<moonOff, gapPat, eqOff>>

\* findPrincipalTermBetween has no unbounded loop: it always returns
CallFindPrincipalTermBetween(startDateUTC, endDateUTC) ==
  /\ call.op = "none"
  /\ call' = [op |-> "findPrincipalTermBetween",
              startDateUTC |-> startDateUTC, endDateUTC |-> endDateUTC,
              ret |-> [status |-> "ok",
                       term |-> findPrincipalTermBetween(startDateUTC, endDateUTC)]]
  /\ UNCHANGED <<moonOff, gapPat, eqOff>>

NextMalformed ==
  \/ \E s \in WindowDates, e \in WindowDates : CallComputeNewMoonsBetween(s, e)
  \/ \E s \in WindowDates, e \in WindowDates : CallFindPrincipalTermBetween(s, e)
  \/ \E y \in RefYears \cup {NaN}, rule \in Rules : CallComputeLunisolarYear(y, rule)
  \/ Return

SpecMalformed == InitMalformed /\ [][NextMalformed]_vars

-----------------------------------------------------------------------------
(* Properties *)

\* the year a caller gets for year index y
YearOf(y, options) == computeLunisolarYear(DateUTC(y, 2, 20), options)

IsYearCall == call.op = "computeLunisolarYear" /\ call.ret.status = "ok"

\* the Sun's longitude passes a multiple of 30 degrees at some instant of
\* [start, end): it is on one at start, or moves past the next one before end
CrossesTermWithin(start, end) ==
  LET r == sunEclipticLongitudeDegrees(start) % TermStep
  IN  r = 0 \/ r + LonPerTick * (end - start) > TermStep

\* C1: converting coordinates (lunarYear, displayMonthNumber, monthDay, isLeap)
\* of a month of a built year, with 1 <= monthDay <= lengthDays, to a date and
\* back gives the same coordinates.
C1_RoundTrip ==
  (/\ call.op = "roundTrip"
   /\ LET Y == YearOf(call.from.lunarYear, call.options)
      IN  /\ Y.status = "ok"
          /\ Y.lunarYear = call.from.lunarYear
          /\ \E i \in 1..Len(Y.months) :
               /\ Y.months[i].displayMonthNumber = call.from.monthNumber
               /\ Y.months[i].isLeap = call.from.isLeap
               /\ call.from.monthDay >= 1
               /\ call.from.monthDay <= Y.months[i].lengthDays)
  => /\ call.ret.status = "ok"
     /\ call.ret.lunarYear = call.from.lunarYear
     /\ call.ret.monthNumber = call.from.monthNumber
     /\ call.ret.monthDay = call.from.monthDay
     /\ call.ret.isLeap = call.from.isLeap

\* C2: in every year returned by computeLunisolarYear each month ends where the
\* next one starts, the first month starts at lunarYearStart, and every month
\* has start < end.
C2_Partition ==
  IsYearCall =>
    LET months == call.ret.months
    IN  /\ \A i \in 1..(Len(months) - 1) : months[i].end = months[i + 1].start
        /\ months[1].start = call.ret.lunarYearStart
        /\ \A i \in 1..Len(months) : months[i].start < months[i].end

C2_Witness == IsYearCall /\ Len(call.ret.months) >= 12

\* C3: displayMonthNumber starts at 1; from month i to month i+1 it stays equal
\* exactly when month i+1 is the leap month, and otherwise grows by exactly 1.
C3_Numbering ==
  IsYearCall =>
    LET months == call.ret.months
    IN  /\ months[1].displayMonthNumber = 1
        /\ \A i \in 1..(Len(months) - 1) :
             months[i + 1].displayMonthNumber =
               IF months[i + 1].isLeap THEN months[i].displayMonthNumber
               ELSE months[i].displayMonthNumber + 1

\* C4: every result of toLunisolar has 1 <= monthDay <= lengthDays of the month
\* it refers to, months[monthIndex] of the returned year.
C4_DayBounds ==
  (call.op \in {"toLunisolar", "roundTrip"} /\ call.ret.status = "ok") =>
    LET Y == YearOf(call.ret.lunarYear, call.options)
    IN  /\ call.ret.monthDay >= 1
        /\ call.ret.monthDay <= Y.months[call.ret.monthIndex + 1].lengthDays

\* C5: a month is the leap month if and only if it is the first month of the
\* year in which the Sun's longitude crosses no multiple of 30 degrees within
\* [start, end); so at most one month is leap.
C5_LeapDetection ==
  IsYearCall =>
    LET months == call.ret.months
        termFree(j) == ~CrossesTermWithin(months[j].start, months[j].end)
    IN  \A j \in 1..Len(months) :
          months[j].isLeap <=> (termFree(j) /\ \A h \in 1..(j - 1) : ~termFree(h))

\* C6: under the default rule, when consecutive conjunctions C_i <= E < C_(i+1)
\* surround the equinox E the year starts at C_i and its first month is
\* [C_i, C_(i+1)); when no interval contains E the year starts at the first
\* conjunction at or after E.
C6_YearStart ==
  (IsYearCall /\ call.options.yearStartRule = "monthContainingEquinox") =>
    LET year == getUTCFullYear(call.ref)
        C == computeNewMoonsBetween(DateUTC(year - 1, 11, 1), DateUTC(year + 1, 3, 30)).list
        E == call.ret.equinox
        around == {i \in 1..(Len(C) - 1) : C[i] <= E /\ E < C[i + 1]}
    IN  /\ \A i \in around :
             /\ call.ret.lunarYearStart = C[i]
             /\ call.ret.months[1].start = C[i]
             /\ call.ret.months[1].end = C[i + 1]
        /\ around = {} =>
             /\ call.ret.lunarYearStart >= E
             /\ \A i \in 1..Len(C) : C[i] >= E => call.ret.lunarYearStart <= C[i]

C6_Witness ==
  /\ IsYearCall
  /\ call.options.yearStartRule = "monthContainingEquinox"
  /\ call.ret.lunarYearStart = call.ret.equinox
  /\ call.ret.months[1].end > call.ret.equinox

\* C7: previewMigrateAffirmations returns for every batch; every event with an
\* unparseable date gives exactly one entry of errors, naming its id, every
\* other event gives exactly one entry of migrated, and the two lists together
\* are as long as the batch.
C7_BestEffort ==
  call.op = "previewMigrateAffirmations" =>
    /\ call.ret.status = "ok"
    /\ Len(call.ret.migrated) + Len(call.ret.errors) = Len(call.affirmationsArray)
    /\ \A n \in 1..Len(call.affirmationsArray) :
         LET item == call.affirmationsArray[n]
             inErrors == {e \in 1..Len(call.ret.errors) : call.ret.errors[e].id = item.id}
             inMigrated == {e \in 1..Len(call.ret.migrated) : call.ret.migrated[e].id = item.id}
         IN  IF item.date = NaN
             THEN Cardinality(inErrors) = 1 /\ inMigrated = {}
             ELSE Cardinality(inMigrated) = 1 /\ inErrors = {}

IsRemapCall ==
  /\ call.op = "previewMigrateAffirmations"
  /\ call.options.strategy = "remapToSameLunarIndex"
  /\ call.ret.status = "ok"

NoMonthMatches ==
  /\ call.op = "fromLunisolar"
  /\ LET Y == YearOf(call.lunarYear, call.options)
     IN  /\ Y.status = "ok"
         /\ \A i \in 1..Len(Y.months) :
              ~(/\ Y.months[i].displayMonthNumber = call.monthNumber
                /\ Y.months[i].isLeap = call.isLeap)

\* C9: fromLunisolar fails with MonthNotFoundError, and returns no date, when
\* no month of the year has the requested (displayMonthNumber, isLeap).
C9_MonthNotFound == NoMonthMatches => call.ret.status = "throw"

\* C9, as amended: when no month of the year has the requested
\* (displayMonthNumber, isLeap), fromLunisolar raises no error and returns the
\* start of the first month of that year.
C9_FallbackToYearStart ==
  NoMonthMatches =>
    /\ call.ret.status = "ok"
    /\ call.ret.date = YearOf(call.lunarYear, call.options).lunarYearStart

C9_Witness ==
  /\ NoMonthMatches
  /\ call.isLeap
  /\ call.monthNumber <= 12
  /\ call.ret.status = "ok"

\* C10: a year has at most 13 months, at most 12 of them not leap, and none of
\* its months after the first begins the following lunisolar year.
C10_YearSize ==
  IsYearCall =>
    LET months == call.ret.months
        next == YearOf(getUTCFullYear(call.ref) + 1, call.options)
    IN  /\ Len(months) <= 13
        /\ Cardinality({i \in 1..Len(months) : ~months[i].isLeap}) <= 12
        /\ \A i \in 1..Len(months) : months[i].start # next.lunarYearStart

\* C11: every call of computeNewMoonsBetween, findPrincipalTermBetween and
\* computeLunisolarYear finishes, its loops ended by their explicit iteration
\* caps, whatever the reference instant and the ephemeris answer, an Invalid
\* Date and a NaN new-moon instant included.
C11_Termination ==
  call.op \in {"computeNewMoonsBetween", "findPrincipalTermBetween",
               "computeLunisolarYear"}
    => call.ret.status # "hang"

====
